---- MODULE Spec2Model ----
(***************************************************************************)
(* A model of the key-value server of src/server.c: the mutex-guarded hash *)
(* table (insert, search, delete, garbage_collect, resize_table,           *)
(* free_table/create_table), the command dispatch of read_client_data, and *)
(* the epoll reactor shared by the worker threads.                         *)
(***************************************************************************)
EXTENDS Integers, Sequences, FiniteSets, TLC

(***************************************************************************)
(* Bounds of the model.                                                    *)
(***************************************************************************)
\* number of worker threads that are modelled (WORKER_THREADS is 4)
NumWorkers == 2
\* INITIAL_CAPACITY scaled down (1023 in the source) so that the load
\* factor threshold is crossed with a handful of keys
InitialCapacity == 2
\* time(NULL) runs over 0..MaxTime
MaxTime == 1
\* connections the acceptor takes over a run
MaxConns == 2
\* chunks of bytes a client sends on one connection
MaxSends == 2

\* BUFFER_SIZE, the size of the read buffer
BUFFER_SIZE == 1024

\* MAX_TTL, the ttl of a command that carries no fourth token
MAX_TTL == 31536000

Workers == 1..NumWorkers
Conns == 1..MaxConns
\* descriptor numbers: one per connection that can be open at a time
FdNums == 1..MaxConns

\* Strings of the program are sequences of byte values.
\* keys "a", "b", "c": with djb2 "a" and "c" share a bucket when capacity is 2
Keys == {<<97>>, <<98>>, <<99>>}
\* values "x", "y"
Values == {<<120>>, <<121>>}
\* ttl tokens "0", "1"
TtlTokens == {<<48>>, <<49>>}

VARIABLES
    table,      \* global_table: the HashTable, or the NULL pointer
    mutex,      \* store_mutex: 0 when free, otherwise the worker that owns it
    now,        \* the value time(NULL) returns
    wk,         \* per worker thread: its position and its locals
    crashed,    \* the process has died of a memory fault
    fdtab,      \* the process's descriptor table: the connection behind each
                \* descriptor number, 0 when the number is closed
    sock,       \* per connection: its receive buffer and what the peer did
    interest,   \* the epoll interest list: <<descriptor, connection>> pairs
    ready,      \* the epoll ready list: registrations with an undelivered edge
    acceptor    \* the main thread: its position and its client_socket

net == <<fdtab, sock, interest, ready, acceptor>>

vars == <<table, mutex, now, wk, crashed, net>>

(***************************************************************************)
(* hash: djb2.  unsigned long arithmetic wraps at 2^64; the keys of the    *)
(* model are short enough never to come near it.                           *)
(***************************************************************************)
RECURSIVE hashFrom(_, _)
hashFrom(h, str) ==
    IF str = <<>> THEN h
    ELSE hashFrom(((h * 32) + h) + Head(str), Tail(str))

hash(str) == hashFrom(5381, str)

(***************************************************************************)
(* atoi on a token of decimal digits (bytes 48..57); stops at the first    *)
(* byte that is no digit.                                                  *)
(***************************************************************************)
RECURSIVE atoiFrom(_, _)
atoiFrom(acc, str) ==
    IF str = <<>> \/ Head(str) < 48 \/ Head(str) > 57 THEN acc
    ELSE atoiFrom(acc * 10 + (Head(str) - 48), Tail(str))

atoi(str) == atoiFrom(0, str)

(***************************************************************************)
(* The hash table.  buckets[i] is the chain of Nodes of bucket i, head     *)
(* first; wild[i] tells that the pointer that ends chain i was never       *)
(* initialised (create_table allocates the bucket array with malloc), so   *)
(* following it is a memory fault.                                         *)
(***************************************************************************)
NullTable ==
    [state |-> "null", capacity |-> 0, count |-> 0, buckets |-> <<>>, wild |-> <<>>]

\* global_table = malloc(sizeof(HashTable)): the struct exists, no field is set
AllocTable == [NullTable EXCEPT !.state = "alloc"]

\* the bucket arrays malloc can hand out: each slot is NULL or garbage
UninitBuckets(capacity) == [0..(capacity - 1) -> BOOLEAN]

create_table(capacity, garbage) ==
    [state |-> "ready", capacity |-> capacity, count |-> 0,
     buckets |-> [i \in 0..(capacity - 1) |-> <<>>],
     wild |-> garbage]

create_node(key, value, h, ttl, tnow) ==
    [key |-> key, value |-> value, created_at |-> tnow, ttl |-> ttl, hash |-> h]

\* the least element of a set of positions, 0 when there is none: a chain is
\* walked from its head, so the first node that matches is the one acted on
FirstPos(S) == IF S = {} THEN 0 ELSE CHOOSE i \in S : \A j \in S : i <= j

\* FindKey with the test of strcmp's result left out: a node matches when
\* its key differs
FindKey_inverted(chain, key) == FirstPos({i \in 1..Len(chain) : chain[i].key # key})

\* insert compares keys only (strcmp)
FindKey(chain, key) == FirstPos({i \in 1..Len(chain) : chain[i].key = key})

\* search and delete compare the stored hash and then the key
FindHashKey(chain, h, key) ==
    FirstPos({i \in 1..Len(chain) : chain[i].hash = h /\ chain[i].key = key})

RemoveAt(chain, pos) ==
    [i \in 1..(Len(chain) - 1) |-> IF i < pos THEN chain[i] ELSE chain[i + 1]]

\* load_factor > LOAD_FACTOR_THRESHOLD, with 0.75 as 3/4
OverLoad(t) == 4 * t.count > 3 * t.capacity

(***************************************************************************)
(* insert, lines 129-170: the part that runs once the load factor check is *)
(* passed.  type 0 is write, 1 is update, 2 is add.  The result is the new *)
(* table, the return value and whether a wild pointer was followed.        *)
(***************************************************************************)
insert(t, key, value, ttl, type, tnow) ==
    LET h == hash(key)
        index == h % t.capacity
        head == t.buckets[index]
        pos == FindKey(head, key)
    IN  IF pos > 0
        THEN IF type # 2
             THEN [table |-> [t EXCEPT !.buckets[index][pos] =
                                  [@ EXCEPT !.value = value, !.ttl = ttl,
                                            !.created_at = tnow]],
                   ret |-> 1, segv |-> FALSE]
             ELSE [table |-> t, ret |-> -1, segv |-> FALSE]
        ELSE IF t.wild[index]
        THEN [table |-> t, ret |-> 0, segv |-> TRUE]
        ELSE IF type # 1
        THEN [table |-> [t EXCEPT !.buckets[index] =
                             <<create_node(key, value, h, ttl, tnow)>> \o head,
                                  !.count = t.count + 1],
              ret |-> 1, segv |-> FALSE]
        ELSE [table |-> t, ret |-> -1, segv |-> FALSE]

\* search without the ttl test: the node of the key is returned at any age
search_without_expiry(t, key, tnow) ==
    LET h == hash(key)
        index == h % t.capacity
        chain == t.buckets[index]
        pos == FindHashKey(chain, h, key)
    IN  IF pos > 0
        THEN [table |-> t, found |-> pos, index |-> index, segv |-> FALSE]
        ELSE [table |-> t, found |-> 0, index |-> index, segv |-> t.wild[index]]

\* search that unlinks an expired node and leaves count as it was
search_without_decrement(t, key, tnow) ==
    LET h == hash(key)
        index == h % t.capacity
        chain == t.buckets[index]
        pos == FindHashKey(chain, h, key)
    IN  IF pos > 0
        THEN IF (tnow - chain[pos].created_at) < chain[pos].ttl
             THEN [table |-> t, found |-> pos, index |-> index, segv |-> FALSE]
             ELSE [table |-> [t EXCEPT !.buckets[index] = RemoveAt(chain, pos)],
                   found |-> 0, index |-> index, segv |-> FALSE]
        ELSE [table |-> t, found |-> 0, index |-> index, segv |-> t.wild[index]]

(***************************************************************************)
(* search, lines 179-206: the first node with the key's hash and the key   *)
(* is returned when it is younger than its ttl and is unlinked and freed   *)
(* otherwise.  found is the position of the node returned, 0 for NULL.     *)
(***************************************************************************)
search(t, key, tnow) ==
    LET h == hash(key)
        index == h % t.capacity
        chain == t.buckets[index]
        pos == FindHashKey(chain, h, key)
    IN  IF pos > 0
        THEN IF (tnow - chain[pos].created_at) < chain[pos].ttl
             THEN [table |-> t, found |-> pos, index |-> index, segv |-> FALSE]
             ELSE [table |-> [t EXCEPT !.buckets[index] = RemoveAt(chain, pos),
                                       !.count = t.count - 1],
                   found |-> 0, index |-> index, segv |-> FALSE]
        ELSE [table |-> t, found |-> 0, index |-> index, segv |-> t.wild[index]]

(***************************************************************************)
(* delete, lines 216-239: the locked part that follows a successful search *)
(***************************************************************************)
\* delete relying on the search that went before: the removal is reported,
\* and counted, though the node is no longer in its chain
delete_trusts_search(t, key) ==
    LET h == hash(key)
        index == h % t.capacity
        chain == t.buckets[index]
        pos == FindHashKey(chain, h, key)
    IN  [table |-> [t EXCEPT !.buckets[index] =
                                 IF pos > 0 THEN RemoveAt(chain, pos) ELSE chain,
                             !.count = t.count - 1],
         ret |-> 1, segv |-> FALSE]

delete(t, key) ==
    LET h == hash(key)
        index == h % t.capacity
        chain == t.buckets[index]
        pos == FindHashKey(chain, h, key)
    IN  IF pos > 0
        THEN [table |-> [t EXCEPT !.buckets[index] = RemoveAt(chain, pos),
                                  !.count = t.count - 1],
              ret |-> 1, segv |-> FALSE]
        ELSE [table |-> t, ret |-> -1, segv |-> t.wild[index]]

(***************************************************************************)
(* garbage_collect, lines 325-349: every node whose ttl is less than its   *)
(* age is unlinked and freed.                                              *)
(***************************************************************************)
Stale(n, tnow) == n.ttl < (tnow - n.created_at)

RECURSIVE Keep(_, _)
Keep(chain, tnow) ==
    IF chain = <<>> THEN <<>>
    ELSE IF Stale(Head(chain), tnow) THEN Keep(Tail(chain), tnow)
    ELSE <<Head(chain)>> \o Keep(Tail(chain), tnow)

RECURSIVE SumLen(_, _)
SumLen(f, S) ==
    IF S = {} THEN 0
    ELSE LET i == CHOOSE x \in S : TRUE
         IN  Len(f[i]) + SumLen(f, S \ {i})

garbage_collect(t, tnow) ==
    LET kept == [i \in DOMAIN t.buckets |-> Keep(t.buckets[i], tnow)]
        removed == SumLen(t.buckets, DOMAIN t.buckets) - SumLen(kept, DOMAIN kept)
    IN  [table |-> [t EXCEPT !.buckets = kept, !.count = t.count - removed],
         segv |-> \E i \in DOMAIN t.wild : t.wild[i]]

(***************************************************************************)
(* resize_table, lines 247-277.  The new bucket array comes from calloc;   *)
(* the old chains are walked bucket by bucket from the head and each node  *)
(* is pushed on the head of its new chain.  size_t arithmetic wraps at     *)
(* 2^64, which no capacity of the model comes near.                        *)
(***************************************************************************)
\* the nodes of buckets i .. capacity - 1 in the order the loops visit them
RECURSIVE NodesFrom(_, _)
NodesFrom(t, i) ==
    IF i >= t.capacity THEN <<>> ELSE t.buckets[i] \o NodesFrom(t, i + 1)

RECURSIVE Rehash(_, _, _)
Rehash(nodes, new_buckets, new_capacity) ==
    IF nodes = <<>> THEN new_buckets
    ELSE LET node == Head(nodes)
             new_index == node.hash % new_capacity
         IN  Rehash(Tail(nodes),
                    [new_buckets EXCEPT ![new_index] = <<node>> \o @],
                    new_capacity)

\* resize_table without the assignment of line 273: the new bucket array
\* is installed and capacity keeps its old value
resize_table_keeps_capacity(t) ==
    LET new_capacity == t.capacity * 3
        new_buckets == [i \in 0..(new_capacity - 1) |-> <<>>]
    IN  [table |-> [t EXCEPT
                      !.buckets = Rehash(NodesFrom(t, 0), new_buckets, new_capacity),
                      !.wild = [i \in 0..(new_capacity - 1) |-> FALSE]],
         segv |-> \E i \in DOMAIN t.wild : t.wild[i]]

resize_table(t) ==
    LET new_capacity == t.capacity * 3
        new_buckets == [i \in 0..(new_capacity - 1) |-> <<>>]
    IN  [table |-> [t EXCEPT
                      !.capacity = new_capacity,
                      !.buckets = Rehash(NodesFrom(t, 0), new_buckets, new_capacity),
                      !.wild = [i \in 0..(new_capacity - 1) |-> FALSE]],
         segv |-> \E i \in DOMAIN t.wild : t.wild[i]]

(***************************************************************************)
(* dump_store.  The range check of line 355 is made before any lock is     *)
(* taken; the listing of lines 371-394 holds, bucket by bucket and in      *)
(* chain order, the key, value, bucket and created_at of each node.        *)
(***************************************************************************)
RangeRejected(t, index, offset) ==
    index >= t.capacity \/ index + offset >= t.capacity

RECURSIVE DumpFrom(_, _, _)
DumpFrom(t, i, end) ==
    IF i >= end THEN <<>>
    ELSE [j \in 1..Len(t.buckets[i]) |->
             [key |-> t.buckets[i][j].key, value |-> t.buckets[i][j].value,
              bucket |-> i, created_at |-> t.buckets[i][j].created_at]]
         \o DumpFrom(t, i + 1, end)

\* for (i = index; i < index + offset; i++)
dump_store(t, index, offset) ==
    LET range == index..(index + offset - 1)
        segv == \E i \in range : i \notin DOMAIN t.buckets \/ t.wild[i]
    IN  [dump |-> IF segv THEN <<>> ELSE DumpFrom(t, index, index + offset),
         segv |-> segv]

(***************************************************************************)
(* The command line.  read_client_data cuts the bytes it read at the first *)
(* newline or carriage return and scans up to four blank-separated tokens. *)
(***************************************************************************)
IsNewline(b) == b = 10 \/ b = 13

\* isspace
IsSpace(b) == b = 32 \/ (b >= 9 /\ b <= 13)

RECURSIVE trim_newline(_)
trim_newline(s) ==
    IF s = <<>> \/ IsNewline(Head(s)) THEN <<>>
    ELSE <<Head(s)>> \o trim_newline(Tail(s))

RECURSIVE SkipSpace(_)
SkipSpace(s) ==
    IF s # <<>> /\ IsSpace(Head(s)) THEN SkipSpace(Tail(s)) ELSE s

\* the length of the token a %<width>s conversion takes from the head of s
RECURSIVE TokenLen(_, _)
TokenLen(s, width) ==
    IF s = <<>> \/ width = 0 \/ IsSpace(Head(s)) THEN 0
    ELSE 1 + TokenLen(Tail(s), width - 1)

\* sscanf(buffer, "%15s %255s %767s %31s", ...): the tokens that were assigned
RECURSIVE ScanTokens(_, _)
ScanTokens(s, widths) ==
    LET rest == SkipSpace(s)
        n == TokenLen(rest, Head(widths))
    IN  IF widths = <<>> \/ rest = <<>> THEN <<>>
        ELSE <<SubSeq(rest, 1, n)>>
             \o ScanTokens(SubSeq(rest, n + 1, Len(rest)), Tail(widths))

sscanf(buffer) == ScanTokens(buffer, <<15, 255, 767, 31>>)

Token(tokens, i) == IF i <= Len(tokens) THEN tokens[i] ELSE <<>>

\* the locals command, key, value, ttl and num_tokens of read_client_data
ParseLine(bytes) ==
    LET tokens == sscanf(trim_newline(bytes))
    IN  [command |-> Token(tokens, 1), key |-> Token(tokens, 2),
         value |-> Token(tokens, 3), ttl |-> Token(tokens, 4),
         num_tokens |-> Len(tokens)]

NoLine == [command |-> <<>>, key |-> <<>>, value |-> <<>>, ttl |-> <<>>,
           num_tokens |-> 0]

ToLower(b) == IF b >= 65 /\ b <= 90 THEN b + 32 ELSE b

\* strcasecmp(a, b) == 0
strcasecmp0(a, b) ==
    Len(a) = Len(b) /\ \A i \in 1..Len(a) : ToLower(a[i]) = ToLower(b[i])

cmd_write == <<119, 114, 105, 116, 101>>
cmd_update == <<117, 112, 100, 97, 116, 101>>
cmd_add == <<97, 100, 100>>
cmd_search == <<115, 101, 97, 114, 99, 104>>
cmd_quit == <<113, 117, 105, 116>>
cmd_dump == <<100, 117, 109, 112>>
cmd_size == <<115, 105, 122, 101>>
cmd_wipe == <<119, 105, 112, 101>>
cmd_delete == <<100, 101, 108, 101, 116, 101>>

\* the branch of the if-chain of lines 433-505 that a parsed line takes
Branch(line) ==
    IF line.num_tokens < 1 THEN "invalid"
    ELSE IF strcasecmp0(line.command, cmd_write) /\ line.num_tokens >= 3 THEN "write"
    ELSE IF strcasecmp0(line.command, cmd_update) /\ line.num_tokens >= 3 THEN "update"
    ELSE IF strcasecmp0(line.command, cmd_add) /\ line.num_tokens >= 3 THEN "add"
    ELSE IF strcasecmp0(line.command, cmd_search) /\ line.num_tokens = 2 THEN "search"
    ELSE IF strcasecmp0(line.command, cmd_quit) THEN "quit"
    ELSE IF strcasecmp0(line.command, cmd_dump) THEN "dump"
    ELSE IF strcasecmp0(line.command, cmd_size) THEN "size"
    ELSE IF strcasecmp0(line.command, cmd_wipe) THEN "wipe"
    ELSE IF strcasecmp0(line.command, cmd_delete) /\ line.num_tokens = 2 THEN "delete"
    ELSE "unknown"

\* ttl_val = (num_tokens == 4) ? atoi(ttl) : MAX_TTL
TtlVal(line) == IF line.num_tokens = 4 THEN atoi(line.ttl) ELSE MAX_TTL

\* the type argument that read_client_data passes to insert
InsertType(branch) ==
    CASE branch = "write" -> 0
      [] branch = "update" -> 1
      [] branch = "add" -> 2

(***************************************************************************)
(* Replies written to the client socket.                                   *)
(***************************************************************************)
Reply(kind) == [kind |-> kind, value |-> <<>>, a |-> 0, b |-> 0, list |-> <<>>]
NoReply == Reply("none")
\* "Found: <value>, timestamp: <created_at>"
FoundReply(value, created_at) == [Reply("Found") EXCEPT !.value = value, !.a = created_at]
\* "<count>, <capacity>"
SizeReply(count, capacity) == [Reply("Size") EXCEPT !.a = count, !.b = capacity]

\* the string dump_store returned, sent as it is (line 477)
DumpReply(dump) == [Reply("Dump") EXCEPT !.list = dump]

\* lines 470-474: index and offset of a dump command
DumpIndex(line) == IF line.num_tokens = 3 THEN atoi(line.key) ELSE 0
DumpOffset(line) ==
    IF line.num_tokens = 3 THEN atoi(line.value) ELSE InitialCapacity - 1

\* the reply of lines 438-454 for the return value of insert
InsertReply(branch, ret) ==
    IF ret = 1 THEN Reply("OK")
    ELSE CASE branch = "write" -> Reply("ErrWrite")
           [] branch = "update" -> Reply("ErrUpdateKeyNotFound")
           [] branch = "add" -> Reply("ErrAddKeyExists")

(***************************************************************************)
(* Worker threads.  pc is the place in worker_thread / read_client_data /  *)
(* the store function the thread is at; line is the parsed command; found  *)
(* is the Node pointer search returned, with the bytes it pointed at then  *)
(* and whether the node has been freed since.                              *)
(***************************************************************************)
NoFound == [key |-> <<>>, value |-> <<>>, created_at |-> 0, dangling |-> FALSE]

\* fd is client_socket; events are the entries of the events array that
\* the loop of line 526 has not looked at yet; freed records that the search
\* of the command in progress unlinked and freed a node (lines 190-198)
IdleWorker == [pc |-> "epoll_wait", fd |-> 0, events |-> <<>>,
               line |-> NoLine, found |-> NoFound, freed |-> FALSE,
               reply |-> NoReply]

KeysOf(t) ==
    UNION {{t.buckets[i][j].key : j \in 1..Len(t.buckets[i])} : i \in DOMAIN t.buckets}

\* the workers' Node pointers after the store went from t to t2: a pointer
\* to a node that was freed on the way dangles
Invalidate(w, t, t2) ==
    [u \in Workers |->
        IF wk[u].found.key # <<>> /\ wk[u].found.key \in KeysOf(t)
           /\ (t2.state # "ready" \/ wk[u].found.key \notin KeysOf(t2))
        THEN [wk[u] EXCEPT !.found.dangling = TRUE]
        ELSE wk[u]]

\* where a worker goes once pthread_mutex_lock returns
LockedPc(pc) ==
    CASE pc = "insert_lock" -> "insert_body"
      [] pc = "resize_lock" -> "resize_body"
      [] pc = "search_lock" -> "search_body"
      [] pc = "delete_lock" -> "delete_body"
      [] pc = "gc_lock" -> "gc_body"
      [] pc = "dump_lock" -> "dump_body"
      [] pc = "free_lock" -> "free_body"

LockPcs == {"insert_lock", "resize_lock", "search_lock", "delete_lock",
            "gc_lock", "dump_lock", "free_lock"}

\* the first store call of each branch, or the reply of a branch without one
Dispatch(w, bytes) ==
    LET line == ParseLine(bytes)
        branch == Branch(line)
    IN  CASE branch \in {"write", "update", "add"} ->
                [wk[w] EXCEPT !.line = line, !.pc = "insert_lock"]
          [] branch \in {"search", "delete"} ->
                [wk[w] EXCEPT !.line = line, !.pc = "search_lock"]
          [] branch = "size" -> [wk[w] EXCEPT !.line = line, !.pc = "gc_lock"]
          [] branch = "dump" -> [wk[w] EXCEPT !.line = line, !.pc = "dump_check"]
          [] branch = "wipe" -> [wk[w] EXCEPT !.line = line, !.pc = "free_lock"]
          [] branch = "quit" -> [wk[w] EXCEPT !.line = line, !.pc = "quit"]
          [] branch = "unknown" ->
                [wk[w] EXCEPT !.line = line, !.pc = "reply",
                              !.reply = Reply("ErrUnknownCommand")]
          [] branch = "invalid" ->
                [wk[w] EXCEPT !.line = line, !.pc = "reply",
                              !.reply = Reply("ErrInvalidCommand")]

\* a memory fault kills the process
Crash == /\ crashed' = TRUE
         /\ UNCHANGED <<table, mutex, now, wk, net>>

\* pthread_mutex_lock(&store_mutex): returns once the mutex is free
MutexLock(w) ==
    /\ ~crashed
    /\ wk[w].pc \in LockPcs
    /\ mutex = 0
    /\ mutex' = w
    /\ wk' = [wk EXCEPT ![w].pc = LockedPc(wk[w].pc)]
    /\ UNCHANGED <<table, now, crashed, net>>

\* insert with the unlock of its failing returns (lines 150, 168) left out
InsertBody_keeps_lock(w) ==
    /\ ~crashed
    /\ wk[w].pc = "insert_body"
    /\ LET line == wk[w].line
           branch == Branch(line)
           r == insert(table, line.key, line.value, TtlVal(line),
                       InsertType(branch), now)
       IN  IF table.state # "ready" THEN Crash
           ELSE IF OverLoad(table)
           THEN /\ wk' = [wk EXCEPT ![w].pc = "resize_lock"]
                /\ UNCHANGED <<table, mutex, now, crashed, net>>
           ELSE IF r.segv THEN Crash
           ELSE /\ table' = r.table
                /\ mutex' = IF r.ret = 1 THEN 0 ELSE mutex
                /\ wk' = [wk EXCEPT ![w].pc = "reply",
                                    ![w].reply = InsertReply(branch, r.ret)]
                /\ UNCHANGED <<now, crashed, net>>

\* insert, lines 125-170, called from lines 438, 444, 450
InsertBody(w) ==
    /\ ~crashed
    /\ wk[w].pc = "insert_body"
    /\ LET line == wk[w].line
           branch == Branch(line)
           r == insert(table, line.key, line.value, TtlVal(line),
                       InsertType(branch), now)
       IN  IF table.state # "ready" THEN Crash
           ELSE IF OverLoad(table)
           THEN \* resize_table() is called, and locks store_mutex first
                /\ wk' = [wk EXCEPT ![w].pc = "resize_lock"]
                /\ UNCHANGED <<table, mutex, now, crashed, net>>
           ELSE IF r.segv THEN Crash
           ELSE /\ table' = r.table
                /\ mutex' = 0
                /\ wk' = [wk EXCEPT ![w].pc = "reply",
                                    ![w].reply = InsertReply(branch, r.ret)]
                /\ UNCHANGED <<now, crashed, net>>

\* search, lines 179-206, called from line 456 and, by delete, from line 211
SearchBody(w) ==
    /\ ~crashed
    /\ wk[w].pc = "search_body"
    /\ LET line == wk[w].line
           r == search(table, line.key, now)
           node == table.buckets[r.index][r.found]
           wk2 == Invalidate(w, table, r.table)
       IN  IF table.state # "ready" THEN Crash
           ELSE IF r.segv THEN Crash
           ELSE /\ table' = r.table
                /\ mutex' = 0
                /\ wk' = [wk2 EXCEPT ![w] =
                            IF r.found = 0
                            THEN [@ EXCEPT !.pc = "reply", !.reply = Reply("NotFound"),
                                           !.freed = (r.table # table)]
                            ELSE IF Branch(line) = "delete"
                            THEN [@ EXCEPT !.pc = "delete_lock"]
                            ELSE [@ EXCEPT !.pc = "search_reply",
                                           !.found = [key |-> node.key,
                                                      value |-> node.value,
                                                      created_at |-> node.created_at,
                                                      dangling |-> FALSE]]]
                /\ UNCHANGED <<now, crashed, net>>

\* lines 457-460: the reply is formatted from found->value and
\* found->created_at, after search has unlocked the mutex.  When the node
\* was freed in between, the read finds the old bytes or faults.
SearchReply(w) ==
    /\ ~crashed
    /\ wk[w].pc = "search_reply"
    /\ LET f == wk[w].found
           index == hash(f.key) % table.capacity
           pos == FindKey(table.buckets[index], f.key)
           node == table.buckets[index][pos]
       IN  \E outcome \in (IF f.dangling THEN {"stale", "fault"} ELSE {"live"}) :
              IF outcome = "fault" THEN Crash
              ELSE /\ wk' = [wk EXCEPT ![w].pc = "reply",
                                ![w].reply =
                                    IF outcome = "live"
                                    THEN FoundReply(node.value, node.created_at)
                                    ELSE FoundReply(f.value, f.created_at)]
                   /\ UNCHANGED <<table, mutex, now, crashed, net>>

\* delete, lines 217-239
DeleteBody(w) ==
    /\ ~crashed
    /\ wk[w].pc = "delete_body"
    /\ LET r == delete(table, wk[w].line.key)
           wk2 == Invalidate(w, table, r.table)
       IN  IF table.state # "ready" THEN Crash
           ELSE IF r.segv THEN Crash
           ELSE /\ table' = r.table
                /\ mutex' = 0
                /\ wk' = [wk2 EXCEPT ![w].pc = "reply",
                                     ![w].reply = IF r.ret = 1 THEN Reply("OK")
                                                  ELSE Reply("NotFound")]
                /\ UNCHANGED <<now, crashed, net>>

\* garbage_collect, lines 325-350, called from line 483 (size) and from
\* line 359 (dump_store)
GcBody(w) ==
    /\ ~crashed
    /\ wk[w].pc = "gc_body"
    /\ LET r == garbage_collect(table, now)
           wk2 == Invalidate(w, table, r.table)
       IN  IF table.state # "ready" THEN Crash
           ELSE IF r.segv THEN Crash
           ELSE /\ table' = r.table
                /\ mutex' = 0
                /\ wk' = [wk2 EXCEPT ![w].pc =
                            IF Branch(wk[w].line) = "dump" THEN "dump_lock"
                            ELSE "size_read"]
                /\ UNCHANGED <<now, crashed, net>>

\* lines 484-486: count and capacity are read without the mutex
SizeRead(w) ==
    /\ ~crashed
    /\ wk[w].pc = "size_read"
    /\ IF table.state = "null" THEN Crash
       ELSE /\ wk' = [wk EXCEPT ![w].pc = "reply",
                        ![w].reply = IF table.state = "ready"
                                     THEN SizeReply(table.count, table.capacity)
                                     ELSE Reply("SizeIndeterminate")]
            /\ UNCHANGED <<table, mutex, now, crashed, net>>

\* dump_store, lines 355-359: global_table->capacity is read without the
\* mutex; an uninitialised capacity lets the check go either way
DumpCheck(w) ==
    /\ ~crashed
    /\ wk[w].pc = "dump_check"
    /\ LET line == wk[w].line
           rejected == IF table.state = "alloc" THEN BOOLEAN
                       ELSE {RangeRejected(table, DumpIndex(line), DumpOffset(line))}
       IN  IF table.state = "null" THEN Crash
           ELSE \E r \in rejected :
                   /\ wk' = [wk EXCEPT ![w] =
                               IF r THEN [@ EXCEPT !.pc = "reply",
                                                   !.reply = Reply("ErrDump")]
                               ELSE [@ EXCEPT !.pc = "gc_lock"]]
                   /\ UNCHANGED <<table, mutex, now, crashed, net>>

\* dump_store, lines 362-396, and the send of line 477
DumpBody(w) ==
    /\ ~crashed
    /\ wk[w].pc = "dump_body"
    /\ LET line == wk[w].line
           r == dump_store(table, DumpIndex(line), DumpOffset(line))
       IN  IF table.state # "ready" THEN Crash
           ELSE IF r.segv THEN Crash
           ELSE /\ mutex' = 0
                /\ wk' = [wk EXCEPT ![w].pc = "reply",
                                    ![w].reply = DumpReply(r.dump)]
                /\ UNCHANGED <<table, now, crashed, net>>

DumpStep(w) == DumpCheck(w) \/ DumpBody(w)

\* resize_table, lines 247-277
ResizeBody(w) ==
    /\ ~crashed
    /\ wk[w].pc = "resize_body"
    /\ LET r == resize_table(table)
       IN  IF table.state # "ready" THEN Crash
           ELSE IF r.segv THEN Crash
           ELSE /\ table' = r.table
                /\ mutex' = 0
                /\ wk' = [wk EXCEPT ![w].pc = "resize_done"]
                /\ UNCHANGED <<now, crashed, net>>

\* free_table, lines 298-320, called from line 488 (wipe)
FreeBody(w) ==
    /\ ~crashed
    /\ wk[w].pc = "free_body"
    /\ IF table.state = "alloc" THEN Crash
       ELSE /\ table' = NullTable
            /\ mutex' = 0
            /\ wk' = [Invalidate(w, table, NullTable) EXCEPT ![w].pc = "create_alloc"]
            /\ UNCHANGED <<now, crashed, net>>

\* create_table, line 74: global_table = malloc(sizeof(HashTable))
CreateAlloc(w) ==
    /\ ~crashed
    /\ wk[w].pc = "create_alloc"
    /\ table' = AllocTable
    /\ wk' = [Invalidate(w, table, AllocTable) EXCEPT ![w].pc = "create_init"]
    /\ UNCHANGED <<mutex, now, crashed, net>>

\* create_table, lines 79-87, and the reply of line 493
CreateInit(w) ==
    /\ ~crashed
    /\ wk[w].pc = "create_init"
    /\ IF table.state = "null" THEN Crash
       ELSE \E garbage \in UninitBuckets(InitialCapacity) :
               /\ table' = create_table(InitialCapacity, garbage)
               /\ wk' = [Invalidate(w, table, AllocTable) EXCEPT
                            ![w].pc = "reply", ![w].reply = Reply("AllClean")]
               /\ UNCHANGED <<mutex, now, crashed, net>>

\* write(client_socket, ...) of the reply; the loop of line 403 goes on
SendReply(w) ==
    /\ ~crashed
    /\ wk[w].pc = "reply"
    /\ wk' = [wk EXCEPT ![w] = [@ EXCEPT !.pc = "read", !.line = NoLine,
                                          !.found = NoFound, !.freed = FALSE,
                                          !.reply = NoReply]]
    /\ UNCHANGED <<table, mutex, now, crashed, net>>

\* the clock that time(NULL) reads
Tick ==
    /\ ~crashed
    /\ now < MaxTime
    /\ now' = now + 1
    /\ UNCHANGED <<table, mutex, wk, crashed, net>>

StoreStep(w) ==
    \/ MutexLock(w)
    \/ InsertBody(w)
    \/ SearchBody(w)
    \/ SearchReply(w)
    \/ DeleteBody(w)
    \/ GcBody(w)
    \/ SizeRead(w)
    \/ FreeBody(w)
    \/ CreateAlloc(w)
    \/ CreateInit(w)
    \/ SendReply(w)

(***************************************************************************)
(* The reactor: sockets, the epoll instance and the acceptor (main).       *)
(* Client sockets are registered EPOLLIN | EPOLLET (line 624): a           *)
(* registration is put on the ready list at each arrival on its socket,    *)
(* and epoll_wait hands the ready list to one of the waiting workers.      *)
(***************************************************************************)
NoSock == [state |-> "none", inbuf |-> <<>>, fin |-> FALSE, err |-> FALSE,
           left |-> MaxSends]

\* the registrations of the connection c
RegsOf(c) == {e \in interest : e[2] = c}

\* what epoll reports for a connection: an error or hang-up, readable, nothing
EventMask(c) ==
    IF sock[c].err THEN "err"
    ELSE IF sock[c].inbuf # <<>> \/ sock[c].fin THEN "in"
    ELSE "none"

\* the sequences that list the elements of a set once each
RECURSIVE Orderings(_)
Orderings(S) ==
    IF S = {} THEN {<<>>}
    ELSE UNION {{<<x>> \o rest : rest \in Orderings(S \ {x})} : x \in S}

\* close(fd): the descriptor number is released; the connection behind it
\* is closed and the kernel drops its registration
CloseFd(fd) ==
    IF fd \in FdNums /\ fdtab[fd] # 0
    THEN /\ fdtab' = [fdtab EXCEPT ![fd] = 0]
         /\ sock' = [sock EXCEPT ![fdtab[fd]].state = "closed"]
         /\ interest' = interest \ {<<fd, fdtab[fd]>>}
         /\ ready' = ready \ {<<fd, fdtab[fd]>>}
    ELSE UNCHANGED <<fdtab, sock, interest, ready>>

\* epoll_ctl(epoll_fd, EPOLL_CTL_DEL, fd, NULL): removes the registration of
\* whatever the descriptor number refers to now
DelFd(fd) ==
    IF fd \in FdNums /\ fdtab[fd] # 0
    THEN /\ interest' = interest \ {<<fd, fdtab[fd]>>}
         /\ ready' = ready \ {<<fd, fdtab[fd]>>}
         /\ UNCHANGED <<fdtab, sock>>
    ELSE UNCHANGED <<fdtab, sock, interest, ready>>

\* main, line 613: accept returns the lowest free descriptor number
Accept ==
    /\ ~crashed
    /\ acceptor.pc = "accept"
    /\ \E c \in Conns, fd \in FdNums :
          /\ sock[c].state = "none"
          /\ \A d \in Conns : d < c => sock[d].state # "none"
          /\ fdtab[fd] = 0
          /\ \A g \in FdNums : g < fd => fdtab[g] # 0
          /\ fdtab' = [fdtab EXCEPT ![fd] = c]
          /\ sock' = [sock EXCEPT ![c].state = "open"]
          /\ acceptor' = [pc |-> "epoll_add", fd |-> fd]
    /\ UNCHANGED <<table, mutex, now, wk, crashed, interest, ready>>

\* main, lines 622-629: epoll_ctl(EPOLL_CTL_ADD) with EPOLLIN | EPOLLET
EpollAdd ==
    /\ ~crashed
    /\ acceptor.pc = "epoll_add"
    /\ LET fd == acceptor.fd
           c == fdtab[fd]
       IN  IF c = 0
           THEN UNCHANGED <<interest, ready>>
           ELSE /\ interest' = interest \cup {<<fd, c>>}
                /\ ready' = IF EventMask(c) # "none" THEN ready \cup {<<fd, c>>}
                            ELSE ready
    /\ acceptor' = [pc |-> "accept", fd |-> 0]
    /\ UNCHANGED <<table, mutex, now, wk, crashed, fdtab, sock>>

\* the lines a client of the reactor sends: "quit" and "x" (no command)
NetLines == {cmd_quit \o <<10>>, <<120, 10>>}

\* the peer sends bytes
ClientSend(c) ==
    /\ ~crashed
    /\ sock[c].state = "open" /\ ~sock[c].fin /\ ~sock[c].err
    /\ sock[c].left > 0
    /\ \E bytes \in NetLines :
          sock' = [sock EXCEPT ![c].inbuf = @ \o bytes, ![c].left = @ - 1]
    /\ ready' = ready \cup RegsOf(c)
    /\ UNCHANGED <<table, mutex, now, wk, crashed, fdtab, interest, acceptor>>

\* the peer closes its end: the server's read returns 0 once the buffer is empty
ClientClose(c) ==
    /\ ~crashed
    /\ sock[c].state = "open" /\ ~sock[c].fin /\ ~sock[c].err
    /\ sock' = [sock EXCEPT ![c].fin = TRUE]
    /\ ready' = ready \cup RegsOf(c)
    /\ UNCHANGED <<table, mutex, now, wk, crashed, fdtab, interest, acceptor>>

\* the peer resets the connection: EPOLLERR | EPOLLHUP
ClientReset(c) ==
    /\ ~crashed
    /\ sock[c].state = "open" /\ ~sock[c].err
    /\ sock' = [sock EXCEPT ![c].err = TRUE, ![c].inbuf = <<>>]
    /\ ready' = ready \cup RegsOf(c)
    /\ UNCHANGED <<table, mutex, now, wk, crashed, fdtab, interest, acceptor>>

\* worker_thread, line 515: epoll_wait takes what is on the ready list
EpollWait(w) ==
    /\ ~crashed
    /\ wk[w].pc = "epoll_wait"
    /\ ready # {}
    /\ LET evs == {e \in ready : EventMask(e[2]) # "none"}
       IN  \E order \in Orderings(evs) :
              wk' = [wk EXCEPT
                       ![w].events = [i \in 1..Len(order) |->
                                         [fd |-> order[i][1],
                                          mask |-> EventMask(order[i][2])]],
                       ![w].pc = IF evs = {} THEN "epoll_wait" ELSE "event"]
    /\ ready' = {}
    /\ UNCHANGED <<table, mutex, now, crashed, fdtab, sock, interest, acceptor>>

\* worker_thread, lines 526-545: the next entry of the events array
NextEvent(w) ==
    /\ ~crashed
    /\ wk[w].pc = "event"
    /\ wk' = [wk EXCEPT ![w] =
                IF @.events = <<>>
                THEN [@ EXCEPT !.pc = "epoll_wait", !.fd = 0]
                ELSE [@ EXCEPT !.fd = Head(wk[w].events).fd,
                               !.events = Tail(wk[w].events),
                               !.pc = IF Head(wk[w].events).mask = "err"
                                      THEN "hup_close" ELSE "read"]]
    /\ UNCHANGED <<table, mutex, now, crashed, net>>

\* line 537: close(client_socket) on an error or hang-up event
HupClose(w) ==
    /\ ~crashed
    /\ wk[w].pc = "hup_close"
    /\ CloseFd(wk[w].fd)
    /\ wk' = [wk EXCEPT ![w].pc = "hup_del"]
    /\ UNCHANGED <<table, mutex, now, crashed, acceptor>>

\* line 538: epoll_ctl(EPOLL_CTL_DEL) after the close
HupDel(w) ==
    /\ ~crashed
    /\ wk[w].pc = "hup_del"
    /\ DelFd(wk[w].fd)
    /\ wk' = [wk EXCEPT ![w].pc = "event"]
    /\ UNCHANGED <<table, mutex, now, crashed, acceptor>>

Min(a, b) == IF a < b THEN a ELSE b

\* read_client_data, lines 405-431: read(client_socket, buffer, BUFFER_SIZE - 1)
Read(w) ==
    /\ ~crashed
    /\ wk[w].pc = "read"
    /\ LET fd == wk[w].fd
           c == fdtab[fd]
           n == Min(Len(sock[c].inbuf), BUFFER_SIZE - 1)
       IN  IF c = 0 \/ sock[c].err
           THEN \* EBADF or ECONNRESET: line 411
                /\ wk' = [wk EXCEPT ![w].pc = "err_close"]
                /\ UNCHANGED sock
           ELSE IF sock[c].inbuf # <<>>
           THEN /\ wk' = [wk EXCEPT ![w] = Dispatch(w, SubSeq(sock[c].inbuf, 1, n))]
                /\ sock' = [sock EXCEPT ![c].inbuf =
                               SubSeq(sock[c].inbuf, n + 1, Len(sock[c].inbuf))]
           ELSE IF sock[c].fin
           THEN \* bytes_read == 0: line 416
                /\ wk' = [wk EXCEPT ![w].pc = "eof_close"]
                /\ UNCHANGED sock
           ELSE \* EAGAIN: line 409, back to the loop of worker_thread
                /\ wk' = [wk EXCEPT ![w].pc = "event"]
                /\ UNCHANGED sock
    /\ UNCHANGED <<table, mutex, now, crashed, fdtab, interest, ready, acceptor>>

\* lines 412-413: close(client_socket) after a read error; return
ErrClose(w) ==
    /\ ~crashed
    /\ wk[w].pc = "err_close"
    /\ CloseFd(wk[w].fd)
    /\ wk' = [wk EXCEPT ![w].pc = "event"]
    /\ UNCHANGED <<table, mutex, now, crashed, acceptor>>

\* line 419: close(client_socket) after the peer closed
EofClose(w) ==
    /\ ~crashed
    /\ wk[w].pc = "eof_close"
    /\ CloseFd(wk[w].fd)
    /\ wk' = [wk EXCEPT ![w].pc = "eof_del"]
    /\ UNCHANGED <<table, mutex, now, crashed, acceptor>>

\* lines 420-421: epoll_ctl(EPOLL_CTL_DEL) after the close; return
EofDel(w) ==
    /\ ~crashed
    /\ wk[w].pc = "eof_del"
    /\ DelFd(wk[w].fd)
    /\ wk' = [wk EXCEPT ![w].pc = "event"]
    /\ UNCHANGED <<table, mutex, now, crashed, acceptor>>

\* lines 465-466: send(client_socket, "Goodbye!\n")
Quit(w) ==
    /\ ~crashed
    /\ wk[w].pc = "quit"
    /\ wk' = [wk EXCEPT ![w].pc = "quit_close", ![w].reply = Reply("Goodbye")]
    /\ UNCHANGED <<table, mutex, now, crashed, net>>

\* lines 467-468: close(client_socket); break
QuitClose(w) ==
    /\ ~crashed
    /\ wk[w].pc = "quit_close"
    /\ CloseFd(wk[w].fd)
    /\ wk' = [wk EXCEPT ![w] = [@ EXCEPT !.pc = "event", !.line = NoLine,
                                          !.reply = NoReply]]
    /\ UNCHANGED <<table, mutex, now, crashed, acceptor>>

\* the positions of worker_thread outside read_client_data
LoopPcs == {"epoll_wait", "event", "hup_close", "hup_del"}

\* the workers that are inside read_client_data on the connection c
Readers(c) ==
    {w \in Workers : /\ wk[w].pc \notin LoopPcs
                     /\ wk[w].fd \in FdNums
                     /\ fdtab[wk[w].fd] = c}

(***************************************************************************)
(* Specifications.                                                         *)
(***************************************************************************)
SP == <<32>>
NL == <<10>>

InsertLines ==
    {c \o SP \o k \o SP \o v \o NL :
        c \in {cmd_write, cmd_update, cmd_add}, k \in Keys, v \in Values}
    \cup {c \o SP \o k \o SP \o v \o SP \o t \o NL :
        c \in {cmd_write, cmd_update, cmd_add}, k \in Keys, v \in Values,
        t \in TtlTokens}

KeyLines == {c \o SP \o k \o NL : c \in {cmd_search, cmd_delete}, k \in Keys}

\* "dump", "dump 0 1", "dump 0 2", "dump 1 1", "dump 2 1"
DumpLines ==
    {cmd_dump \o NL}
    \cup {cmd_dump \o SP \o a \o SP \o b \o NL :
             <<a, b>> \in {<<<<48>>, <<49>>>>, <<<<48>>, <<50>>>>,
                           <<<<49>>, <<49>>>>, <<<<50>>, <<49>>>>}}

\* "write a" and "search" (too few arguments), "x" (no command), "" (empty)
BadLines ==
    {cmd_write \o SP \o <<97>> \o NL, cmd_search \o NL, <<120>> \o NL, NL}

Lines ==
    InsertLines \cup KeyLines \cup DumpLines \cup BadLines
    \cup {cmd_size \o NL, cmd_wipe \o NL}

\* read() returns the bytes of one line, which are parsed and dispatched
Command(w) ==
    /\ ~crashed
    /\ wk[w].pc = "read"
    /\ \E bytes \in Lines : wk' = [wk EXCEPT ![w] = Dispatch(w, bytes)]
    /\ UNCHANGED <<table, mutex, now, crashed, net>>

InitStore ==
    /\ \E garbage \in UninitBuckets(InitialCapacity) :
          table = create_table(InitialCapacity, garbage)
    /\ mutex = 0
    /\ now = 0
    /\ crashed = FALSE

InitNet ==
    /\ fdtab = [fd \in FdNums |-> 0]
    /\ sock = [c \in Conns |-> NoSock]
    /\ interest = {}
    /\ ready = {}
    /\ acceptor = [pc |-> "accept", fd |-> 0]

\* Spec: the store engine driven by one client.  Worker 1 is in
\* read_client_data on a connection whose every read returns one whole
\* command line; the other workers wait in epoll_wait.
Init ==
    /\ InitStore
    /\ InitNet
    /\ wk = [w \in Workers |-> IF w = 1 THEN [IdleWorker EXCEPT !.pc = "read"]
                               ELSE IdleWorker]

Next ==
    \/ Command(1)
    \/ StoreStep(1)
    \/ DumpStep(1)
    \/ Tick

Spec == Init /\ [][Next]_vars

\* SpecConc: every worker is in read_client_data on a connection of its own
\* and the clients send the commands of ConcLines.
ka == <<97>>
kb == <<98>>
kc == <<99>>
vx == <<120>>
vy == <<121>>

ConcLines ==
    { cmd_write \o SP \o ka \o SP \o vx \o SP \o <<49>> \o NL,
      cmd_write \o SP \o kc \o SP \o vy \o NL,
      cmd_write \o SP \o kb \o SP \o vx \o NL,
      cmd_add \o SP \o ka \o SP \o vy \o NL,
      cmd_update \o SP \o ka \o SP \o vy \o NL,
      cmd_search \o SP \o ka \o NL,
      cmd_delete \o SP \o ka \o NL,
      cmd_size \o NL,
      cmd_wipe \o NL }

CommandConc(w) ==
    /\ ~crashed
    /\ wk[w].pc = "read"
    /\ \E bytes \in ConcLines : wk' = [wk EXCEPT ![w] = Dispatch(w, bytes)]
    /\ UNCHANGED <<table, mutex, now, crashed, net>>

InitConc ==
    /\ InitStore
    /\ InitNet
    /\ wk = [w \in Workers |-> [IdleWorker EXCEPT !.pc = "read"]]

NextConc ==
    \/ \E w \in Workers : CommandConc(w) \/ StoreStep(w)
    \/ Tick

SpecConc == InitConc /\ [][NextConc]_vars

\* SpecResize: resize_table as a function of the store.  It is applied,
\* with store_mutex free at its call, to each store of ResizeInputs: the
\* stores over the load factor threshold that inserts of the keys of Keys
\* build at the capacities 1 .. InitialCapacity + 1, with every content of
\* the bucket slots that hold no chain.
RECURSIVE InsertAll(_, _, _)
InsertAll(t, keys, val) ==
    IF keys = <<>> THEN t
    ELSE InsertAll(insert(t, Head(keys), val[Head(keys)], MAX_TTL, 0, 0).table,
                   Tail(keys), val)

KeySeqs == UNION {Orderings(S) : S \in SUBSET Keys}

ResizeInputs ==
    {t \in UNION {{[InsertAll(create_table(cap, [i \in 0..(cap - 1) |-> FALSE]),
                               keys, val) EXCEPT !.wild = garbage] :
                      keys \in KeySeqs, val \in [Keys -> Values],
                      garbage \in UninitBuckets(cap)} :
                   cap \in 1..(InitialCapacity + 1)} :
        /\ OverLoad(t)
        /\ ~OverLoad([t EXCEPT !.count = @ - 1])
        /\ \A i \in DOMAIN t.buckets : t.wild[i] => t.buckets[i] = <<>>}

InitResize ==
    /\ table \in ResizeInputs
    /\ mutex = 0
    /\ now = 0
    /\ crashed = FALSE
    /\ InitNet
    /\ \E caller \in Workers :
          wk = [w \in Workers |->
                  IF w = caller THEN [IdleWorker EXCEPT !.pc = "resize_lock"]
                  ELSE IdleWorker]

NextResize ==
    \E w \in Workers : MutexLock(w) \/ ResizeBody(w)

SpecResize == InitResize /\ [][NextResize]_vars

\* SpecNet: the reactor.  Clients connect, send the lines of NetLines, close
\* or reset; the acceptor registers them and the workers serve them.  No
\* line of NetLines reaches a store function, so the content of the bucket
\* array plays no part and is taken to be zeroed.
InitNetSpec ==
    /\ table = create_table(InitialCapacity, [i \in 0..(InitialCapacity - 1) |-> FALSE])
    /\ mutex = 0
    /\ now = 0
    /\ crashed = FALSE
    /\ InitNet
    /\ wk = [w \in Workers |-> IdleWorker]

NextNet ==
    \/ Accept
    \/ EpollAdd
    \/ \E c \in Conns : ClientSend(c) \/ ClientClose(c) \/ ClientReset(c)
    \/ \E w \in Workers :
          \/ EpollWait(w)
          \/ NextEvent(w)
          \/ HupClose(w)
          \/ HupDel(w)
          \/ Read(w)
          \/ ErrClose(w)
          \/ EofClose(w)
          \/ EofDel(w)
          \/ Quit(w)
          \/ QuitClose(w)
          \/ SendReply(w)

SpecNet == InitNetSpec /\ [][NextNet]_vars

(***************************************************************************)
(* Properties.                                                             *)
(***************************************************************************)
AllNodes(t) ==
    UNION {{t.buckets[i][j] : j \in 1..Len(t.buckets[i])} : i \in DOMAIN t.buckets}

\* the places <<bucket, position>> of the store that hold the key
Places(t, key) ==
    UNION {{<<i, j>> : j \in {p \in 1..Len(t.buckets[i]) : t.buckets[i][p].key = key}} :
              i \in DOMAIN t.buckets}

\* the worker leaves the locked part of insert / search / garbage_collect
InsertStep(w) == wk[w].pc = "insert_body" /\ wk'[w].pc # "insert_body"
SearchStep(w) == wk[w].pc = "search_body" /\ wk'[w].pc # "search_body"
GcStep(w) == wk[w].pc = "gc_body" /\ wk'[w].pc # "gc_body"

\* C1: at most one worker is inside read_client_data on a given connection
\* at any time.
C1_OneReaderPerConnection ==
    \A c \in Conns : Cardinality(Readers(c)) <= 1

\* C2: a write whose insert finds the load factor over the threshold, and so
\* calls resize_table, completes: it is never left waiting for store_mutex
\* while it is itself the owner that would have to release it.
C2_ResizingWriteCompletes ==
    \A w \in Workers :
        (Branch(wk[w].line) = "write" /\ wk[w].pc = "resize_lock") => mutex # w

\* C3: when several workers execute write concurrently, every one of them
\* completes: no write in progress waits for, or holds, a store_mutex whose
\* owner is blocked in resize_table.
C3_ConcurrentWritesComplete ==
    \A w \in Workers :
        (Branch(wk[w].line) = "write"
           /\ wk[w].pc \in {"insert_lock", "insert_body", "resize_lock"})
        => (mutex = 0 \/ wk[mutex].pc # "resize_lock")

\* C4: add on a key that has an entry gets the key-exists reply and leaves
\* the store, and so that entry's value, ttl and created_at, as it was.
C4_AddExistingKeyFails ==
    [][\A w \in Workers :
          (InsertStep(w) /\ Branch(wk[w].line) = "add"
             /\ wk[w].line.key \in KeysOf(table))
          => (/\ wk'[w].pc = "reply"
              /\ wk'[w].reply = Reply("ErrAddKeyExists")
              /\ table' = table)]_vars

\* C5: update on a key that has no entry gets the key-not-found reply and
\* leaves the whole store unchanged, whatever the load factor.
C5_UpdateAbsentKeyFails ==
    [][\A w \in Workers :
          (InsertStep(w) /\ Branch(wk[w].line) = "update"
             /\ wk[w].line.key \notin KeysOf(table))
          => (/\ wk'[w].pc = "reply"
              /\ wk'[w].reply = Reply("ErrUpdateKeyNotFound")
              /\ table' = table)]_vars

\* C6: write replies OK from every store state; a search of the key right
\* after it finds the value written (when the ttl is not 0); count is
\* unchanged when the key had an entry and grows by one otherwise.
C6_WriteSucceeds ==
    [][\A w \in Workers :
          (InsertStep(w) /\ Branch(wk[w].line) = "write")
          => LET k == wk[w].line.key
                 r == search(table', k, now)
             IN  /\ wk'[w].pc = "reply"
                 /\ wk'[w].reply = Reply("OK")
                 /\ TtlVal(wk[w].line) > 0 =>
                       /\ r.found > 0
                       /\ table'.buckets[r.index][r.found].value = wk[w].line.value
                 /\ table'.count = IF k \in KeysOf(table) THEN table.count
                                   ELSE table.count + 1]_vars

\* C7: no key occurs in more than one entry of the store, in any state any
\* interleaving of the workers' commands reaches.
C7_KeysUnique ==
    \A k \in Keys : Cardinality(Places(table, k)) <= 1

\* two workers have both written the same key, and it has one entry
C7_Witness ==
    \E w1 \in Workers, w2 \in Workers :
        /\ w1 # w2
        /\ wk[w1].pc = "reply" /\ wk[w1].reply = Reply("OK")
        /\ wk[w2].pc = "reply" /\ wk[w2].reply = Reply("OK")
        /\ Branch(wk[w1].line) \in {"write", "update"}
        /\ Branch(wk[w2].line) \in {"write", "update"}
        /\ wk[w1].line.key = wk[w2].line.key
        /\ Cardinality(Places(table, wk[w1].line.key)) = 1
        /\ table.count = 2

\* C8: search returns the entry of the key at every time up to
\* created_at + ttl - 1 and returns NULL (Not found), with the entry
\* gone, at every time from created_at + ttl + 1 on, sweep or no sweep.
C8_SearchHonoursTtl ==
    [][\A w \in Workers :
          SearchStep(w) =>
             \A n \in AllNodes(table) :
                n.key = wk[w].line.key =>
                   /\ now <= n.created_at + n.ttl - 1 =>
                         /\ wk'[w].pc \in {"search_reply", "delete_lock"}
                         /\ wk'[w].pc = "search_reply" =>
                               /\ wk'[w].found.value = n.value
                               /\ wk'[w].found.created_at = n.created_at
                   /\ now >= n.created_at + n.ttl + 1 =>
                         /\ wk'[w].pc = "reply"
                         /\ wk'[w].reply = Reply("NotFound")
                         /\ n.key \notin KeysOf(table')]_vars

\* a search has returned an entry in the last second of its life
C8_Witness ==
    \E w \in Workers :
        /\ wk[w].pc = "search_reply"
        /\ \E n \in AllNodes(table) :
              /\ n.key = wk[w].found.key
              /\ n.ttl = 1
              /\ now = n.created_at + n.ttl - 1

\* C9: the search that finds the key's entry expired removes it and lowers
\* count by exactly one; a search of a key that has no entry, or whose
\* entry is alive, leaves the store as it was; a sweep lowers count by the
\* number of entries it removes, so never again for a key already removed.
C9_LazyExpiryCountsOnce ==
    [][\A w \in Workers :
          /\ SearchStep(w) =>
                LET k == wk[w].line.key
                    old == {n \in AllNodes(table) :
                               n.key = k /\ (now - n.created_at) >= n.ttl}
                IN  IF old # {}
                    THEN /\ table'.count = table.count - 1
                         /\ k \notin KeysOf(table')
                         /\ AllNodes(table') = AllNodes(table) \ old
                         /\ wk'[w].reply = Reply("NotFound")
                    ELSE table' = table
          /\ GcStep(w) =>
                /\ table.count - table'.count
                      = Cardinality(AllNodes(table) \ AllNodes(table'))
                /\ AllNodes(table') \subseteq AllNodes(table)]_vars

\* a search has just removed the expired entry of its key, one other entry
\* is left and is counted
C9_Witness ==
    \E w \in Workers :
        /\ wk[w].pc = "reply"
        /\ Branch(wk[w].line) = "search"
        /\ wk[w].freed
        /\ wk[w].line.key \notin KeysOf(table)
        /\ table.count = 1
        /\ Cardinality(AllNodes(table)) = 1

\* C10: when wipe has been carried out, count is 0, capacity is the initial
\* capacity and no bucket holds anything: every chain is empty and ends in
\* NULL.
C10_WipeLeavesEmptyStore ==
    \A w \in Workers :
        (wk[w].pc = "reply" /\ wk[w].reply = Reply("AllClean"))
        => /\ table.state = "ready"
           /\ table.count = 0
           /\ table.capacity = InitialCapacity
           /\ \A i \in DOMAIN table.buckets :
                 table.buckets[i] = <<>> /\ ~table.wild[i]

\* the keys for which a search at time tnow returns an entry
LiveKeys(t, tnow) == {k \in KeysOf(t) : search(t, k, tnow).found > 0}

\* C11: the count that size replies is the number of keys a search at that
\* instant would find; an entry search treats as expired (elapsed >= ttl)
\* is not counted.
C11_SizeCountsLiveEntries ==
    [][\A w \in Workers :
          (wk[w].pc = "size_read" /\ wk'[w].pc = "reply"
             /\ wk'[w].reply.kind = "Size")
          => wk'[w].reply.a = Cardinality(LiveKeys(table, now))]_vars

\* the worker passes the range check of dump_store / leaves its locked part
DumpCheckStep(w) == wk[w].pc = "dump_check" /\ wk'[w].pc # "dump_check"
DumpBodyStep(w) == wk[w].pc = "dump_body" /\ wk'[w].pc # "dump_body"

\* the listing lines of the live entries of buckets lo .. hi - 1
LiveIn(t, tnow, lo, hi) ==
    UNION {{[key |-> t.buckets[i][j].key, value |-> t.buckets[i][j].value,
             bucket |-> i, created_at |-> t.buckets[i][j].created_at] :
               j \in {p \in 1..Len(t.buckets[i]) :
                         (tnow - t.buckets[i][p].created_at) < t.buckets[i][p].ttl}} :
           i \in {b \in DOMAIN t.buckets : lo <= b /\ b < hi}}

ListedSet(list) == {list[p] : p \in 1..Len(list)}

\* C12: dump without arguments is not refused, and its listing holds every
\* live entry of every bucket of [0, capacity), each once.
C12_DumpCoversAllBuckets ==
    [][\A w \in Workers :
          wk[w].line.num_tokens = 1 =>
             /\ (DumpCheckStep(w) /\ table.state = "ready")
                   => wk'[w].pc = "gc_lock"
             /\ DumpBodyStep(w) =>
                   LET list == wk'[w].reply.list
                   IN  /\ LiveIn(table, now, 0, table.capacity) \subseteq ListedSet(list)
                       /\ Len(list) = Cardinality(ListedSet(list))]_vars

\* C13: dump <start> <count> is refused exactly when [start, start + count)
\* reaches outside [0, capacity); otherwise its listing holds exactly the
\* live entries of the buckets of that interval, each once.
C13_DumpRangeExact ==
    [][\A w \in Workers :
          LET index == DumpIndex(wk[w].line)
              offset == DumpOffset(wk[w].line)
              inside == index + offset <= table.capacity
          IN  wk[w].line.num_tokens = 3 =>
                 /\ (DumpCheckStep(w) /\ table.state = "ready") =>
                       IF inside THEN wk'[w].pc = "gc_lock"
                       ELSE wk'[w].pc = "reply" /\ wk'[w].reply = Reply("ErrDump")
                 /\ DumpBodyStep(w) =>
                       LET list == wk'[w].reply.list
                       IN  /\ ListedSet(list) = LiveIn(table, now, index, index + offset)
                           /\ Len(list) = Cardinality(ListedSet(list))]_vars

\* the number of complete lines in a run of bytes
CountLines(bytes) == Cardinality({i \in 1..Len(bytes) : bytes[i] = 10})

\* the bytes the read of worker w takes from connection c in this step
ReadTakes(w, c) ==
    /\ wk[w].pc = "read" /\ wk'[w] # wk[w]
    /\ wk[w].fd \in FdNums /\ fdtab[wk[w].fd] = c
    /\ Len(sock'[c].inbuf) < Len(sock[c].inbuf)

\* C14: whatever way the client's bytes arrive, each read hands the
\* interpreter one complete line, the next one in order, so that every
\* line sent is interpreted once and gets one reply.
C14_OneReplyPerLine ==
    [][\A w \in Workers, c \in Conns :
          ReadTakes(w, c) =>
             LET n == Len(sock[c].inbuf) - Len(sock'[c].inbuf)
                 taken == SubSeq(sock[c].inbuf, 1, n)
             IN  /\ CountLines(taken) = 1
                 /\ taken[n] = 10
                 /\ wk'[w].line = ParseLine(taken)]_vars

\* the acceptor has accepted the connection c and has not registered it yet
BeingRegistered(c) ==
    acceptor.pc = "epoll_add" /\ acceptor.fd \in FdNums /\ fdtab[acceptor.fd] = c

\* C15: a connection that is open, once the acceptor has registered it,
\* stays registered for readiness notification whatever teardown of other
\* connections the workers carry out, reuse of a descriptor number included.
C15_TeardownIsLocal ==
    \A c \in Conns :
        (sock[c].state = "open" /\ ~BeingRegistered(c)) => RegsOf(c) # {}

\* the workers other than w that are inside read_client_data with the
\* descriptor number fd
OtherReaders(w, fd) ==
    {u \in Workers \ {w} : wk[u].pc \notin LoopPcs /\ wk[u].fd = fd}

\* C17: the close that follows Goodbye! closes the connection the quit
\* came from, and leaves no worker behind that would go on reading the
\* handle or close it a second time.
C17_QuitClosesOnce ==
    [][\A w \in Workers :
          (wk[w].pc = "quit_close" /\ wk'[w].pc # "quit_close") =>
             /\ wk[w].reply = Reply("Goodbye")
             /\ fdtab[wk[w].fd] # 0
             /\ sock'[fdtab[wk[w].fd]].state = "closed"
             /\ OtherReaders(w, wk[w].fd) = {}]_vars

\* read_client_data has parsed a line and chosen its branch
CommandStep(w) == wk[w].pc = "read" /\ wk'[w].pc # "read"

\* C16: update of an absent key, add of an existing key, search or delete
\* of an absent key, a refused dump, an unknown command and a malformed
\* line each get their error reply, and after the reply the worker is back
\* at the read of the next command of the connection.
C16_ErrorsAreRecovered ==
    [][\A w \in Workers :
          LET line == wk[w].line
              absent == line.key \notin KeysOf(table)
          IN  /\ (InsertStep(w) /\ Branch(line) = "update" /\ absent) =>
                    wk'[w].pc = "reply" /\ wk'[w].reply = Reply("ErrUpdateKeyNotFound")
              /\ (InsertStep(w) /\ Branch(line) = "add" /\ ~absent) =>
                    wk'[w].pc = "reply" /\ wk'[w].reply = Reply("ErrAddKeyExists")
              /\ (SearchStep(w) /\ absent) =>
                    wk'[w].pc = "reply" /\ wk'[w].reply = Reply("NotFound")
              /\ (DumpCheckStep(w) /\ wk'[w].pc # "gc_lock") =>
                    wk'[w].pc = "reply" /\ wk'[w].reply = Reply("ErrDump")
              /\ (CommandStep(w) /\ Branch(wk'[w].line) \in {"unknown", "invalid"}) =>
                    /\ wk'[w].pc = "reply"
                    /\ wk'[w].reply \in {Reply("ErrUnknownCommand"),
                                         Reply("ErrInvalidCommand")}
              /\ (wk[w].pc = "reply" /\ wk'[w].pc # "reply") =>
                    wk'[w].pc = "read"]_vars

\* the command names of lines 437-494
CommandNames ==
    {cmd_write, cmd_update, cmd_add, cmd_search, cmd_quit, cmd_dump, cmd_size,
     cmd_wipe, cmd_delete}

Recognised(line) == \E name \in CommandNames : strcasecmp0(line.command, name)

\* C18: a line that is answered with one of the two command errors gets
\* the invalid-command reply when its command name is a command of the
\* server (its argument count is then what is wrong), and the
\* unknown-command reply only when the name is none.
C18_WrongArgCountIsInvalidFormat ==
    [][\A w \in Workers :
          (CommandStep(w) /\ Branch(wk'[w].line) \in {"unknown", "invalid"}
             /\ Recognised(wk'[w].line))
          => wk'[w].reply = Reply("ErrInvalidCommand")]_vars

\* C19: a thread that is about to lock store_mutex does not own it.
C19_NoNestedLock ==
    \A w \in Workers : wk[w].pc \in LockPcs => mutex # w

\* the places where a worker reads or writes the table, its count, its
\* capacity or its buckets
TableAccessPcs ==
    {"insert_body", "search_body", "delete_body", "gc_body", "dump_body",
     "size_read", "dump_check"}

\* C20: no worker is at a read or write of the table while the table is
\* torn down and not yet built again.
C20_NoAccessDuringRebuild ==
    \A w \in Workers : wk[w].pc \in TableAccessPcs => table.state = "ready"

\* C21: while a worker is between search's return and the copy of the
\* entry's value and timestamp into the reply, the entry it found has not
\* been freed.
C21_SearchReplyReadsLiveEntry ==
    \A w \in Workers : wk[w].pc = "search_reply" => ~wk[w].found.dangling

\* the worker leaves the locked removal of delete
DeleteStep(w) == wk[w].pc = "delete_body" /\ wk'[w].pc # "delete_body"

\* the step takes the entry of the key, one entry, out of the store
RemovesEntryOf(key) ==
    /\ Cardinality(Places(table, key)) = 1
    /\ key \notin KeysOf(table')
    /\ table'.count = table.count - 1
    /\ \E n \in AllNodes(table) :
          n.key = key /\ AllNodes(table') = AllNodes(table) \ {n}

\* the removal of delete: OK when it takes the entry out, Not found, with
\* the store as it was, when the entry is no longer there
DeleteRemovalIsExact(w) ==
    DeleteStep(w) =>
       /\ wk'[w].pc = "reply"
       /\ IF wk[w].line.key \in KeysOf(table)
          THEN wk'[w].reply = Reply("OK") /\ RemovesEntryOf(wk[w].line.key)
          ELSE wk'[w].reply = Reply("NotFound") /\ table' = table

\* the search of a delete command ends the command with Not found
DeleteLookupFails(w) ==
    /\ SearchStep(w) /\ Branch(wk[w].line) = "delete"
    /\ wk'[w].pc = "reply"

\* C22 as stated: delete replies OK exactly when the call removed an entry
\* of the key, so a delete that replies Not found has left the store as
\* it was.
C22_DeleteOkIffRemoved ==
    [][\A w \in Workers :
          /\ DeleteRemovalIsExact(w)
          /\ DeleteLookupFails(w) =>
                wk'[w].reply = Reply("NotFound") /\ table' = table]_vars

\* C22 amended: delete replies OK exactly when its lookup found an
\* unexpired entry and the call then removed an entry of the key; a delete
\* whose lookup finds the entry
\* expired removes it (count drops by one) and replies Not found; a delete
\* that finds no entry replies Not found and leaves the store as it was.
C22_DeleteOkIffRemovedLive ==
    [][\A w \in Workers :
          /\ DeleteRemovalIsExact(w)
          /\ DeleteLookupFails(w) =>
                /\ wk'[w].reply = Reply("NotFound")
                /\ IF \E n \in AllNodes(table) :
                          n.key = wk[w].line.key /\ (now - n.created_at) >= n.ttl
                   THEN RemovesEntryOf(wk[w].line.key)
                   ELSE table' = table]_vars

\* one delete has removed the entry and replied OK while another delete of
\* the same key, whose search found the entry, is about to look for it
C22_Witness ==
    \E w1 \in Workers, w2 \in Workers :
        /\ w1 # w2
        /\ Branch(wk[w1].line) = "delete" /\ Branch(wk[w2].line) = "delete"
        /\ wk[w1].line.key = wk[w2].line.key
        /\ wk[w1].pc = "reply" /\ wk[w1].reply = Reply("OK")
        /\ wk[w2].pc = "delete_body"
        /\ wk[w2].line.key \notin KeysOf(table)
        /\ table.state = "ready"

\* no store operation is in progress: every worker is between commands
Quiescent == \A w \in Workers : wk[w].pc \in {"read", "epoll_wait"}

\* C23: whenever no store operation is in progress, count/capacity is at
\* most 0.75.
C23_LoadFactorBounded ==
    (Quiescent /\ table.state = "ready") => ~OverLoad(table)

\* C24: whenever store_mutex is free, the table exists with its count and
\* capacity set, capacity is greater than 0 and count is the number of
\* entries over all the bucket chains.
C24_CountIsNumberOfEntries ==
    mutex = 0 =>
       /\ table.state = "ready"
       /\ table.capacity > 0
       /\ table.count = SumLen(table.buckets, DOMAIN table.buckets)

\* the worker leaves the body of resize_table
ResizeStep(w) == wk[w].pc = "resize_body" /\ wk'[w].pc # "resize_body"

InHand(fd) ==
    \E w \in Workers :
        \/ wk[w].pc \notin {"epoll_wait", "event"} /\ wk[w].fd = fd
        \/ \E i \in 1..Len(wk[w].events) : wk[w].events[i].fd = fd

\* bytes wait on an open connection that has no registration and that no
\* worker has in hand: no readiness notification will ever be given for
\* them
Stranded(c) ==
    /\ sock[c].state = "open" /\ ~sock[c].err
    /\ sock[c].inbuf # <<>>
    /\ RegsOf(c) = {}
    /\ ~BeingRegistered(c)
    /\ \A fd \in FdNums : fdtab[fd] = c => ~InHand(fd)

\* C26: a worker leaves read_client_data for the wait only when its read
\* found no data on the open connection, or through one of the closes;
\* and no bytes sent on an open connection are left where no worker will
\* ever be notified of them.
C26_DrainAndNoStrandedInput ==
    [][/\ \A w \in Workers :
            (wk[w].pc = "read" /\ wk'[w].pc = "event") =>
               /\ wk[w].fd \in FdNums /\ fdtab[wk[w].fd] # 0
               /\ sock[fdtab[wk[w].fd]].inbuf = <<>>
       /\ \A c \in Conns : ~Stranded(c)']_vars

\* the places where a worker reads from or writes to the client socket
IoPcs == {"read", "reply", "quit"}

\* C27: a worker that is reading from or writing a reply to a client
\* socket does not own store_mutex.
C27_NoLockAcrossIo ==
    \A w \in Workers : wk[w].pc \in IoPcs => mutex # w

\* a worker is writing the error reply of an insert that failed under the
\* lock, and the lock is free
C27_Witness ==
    \E w \in Workers :
        /\ wk[w].pc = "reply"
        /\ wk[w].reply \in {Reply("ErrAddKeyExists"), Reply("ErrUpdateKeyNotFound")}
        /\ mutex = 0

\* C28: when a search of the key at this instant would reply Not found (no
\* entry, or an entry whose ttl has elapsed), add of the key succeeds and
\* update of the key fails with key not found.  Stated for the inserts
\* that get as far as their lookup, in stores not over the load threshold.
C28_UpsertAgreesWithLookup ==
    [][\A w \in Workers :
          (InsertStep(w) /\ ~OverLoad(table)
             /\ search(table, wk[w].line.key, now).found = 0)
          => /\ Branch(wk[w].line) = "add" => wk'[w].reply = Reply("OK")
             /\ Branch(wk[w].line) = "update" =>
                   wk'[w].reply = Reply("ErrUpdateKeyNotFound")]_vars

====
